---- MODULE Spec2Model ----
(***************************************************************************)
(* micro:bit chat (Chat class, version 1.1): the mode dispatcher run(),    *)
(* the three activities send(), get() and group_config(), and the          *)
(* Vigenere-style cipher key_gen() / encrypt() / decrypt().                *)
(*                                                                         *)
(* A string is a sequence of one-character strings.  An uncaught Python    *)
(* exception ends the program: cipher operators return a record whose      *)
(* field err names the exception ("" when the call returns), and the       *)
(* device records it in the variable err with pc = "crashed".              *)
(***************************************************************************)
EXTENDS Integers, Sequences, FiniteSets, TLC

VARIABLES
    name,        \* self.name
    group,       \* self.group
    message,     \* self.message
    mode,        \* self.mode
    letter,      \* self.letter
    incoming,    \* self.incoming
    pc,          \* position of the program
    idx,         \* get(): loop variable i
    cnt,         \* get(): len(self.incoming) taken once by range()
    radioGroup,  \* radio transport: the group set by radio.config
    inp,         \* the inputs read by the last step
    tx,          \* radio.send calls of the current tick
    cfg,         \* radio.config calls of the current tick
    shown,       \* queue entries get() displayed in the current tick
    handlers,    \* activity handlers run() invoked in the current tick
    polls,       \* radio.receive calls of the current tick
    accepted,    \* characters send() accepted in the current tick
    edges,       \* group adjustments of the current tick
    startq,      \* self.incoming when the current tick called get()
    dismissed,   \* entries dismissed in the current tick
    ticks,       \* run() calls so far
    err,         \* the uncaught exception, "" while the program runs
    cap,         \* what the user and the radio do in this session
    cin,         \* cipher check: the plain message
    ckey,        \* cipher check: key_gen(cin)
    cenc,        \* cipher check: encrypt(cin)
    cdec,        \* cipher check: decrypt(encrypt(cin))
    cpc          \* cipher check: position

vars == <<name, group, message, mode, letter, incoming, pc, idx, cnt,
          radioGroup, inp, tx, cfg, shown, handlers, polls, accepted, edges,
          startq, dismissed, ticks, err, cap, cin, ckey, cenc, cdec,
          cpc>>

devVars == <<name, group, message, mode, letter, incoming, pc, idx, cnt,
             radioGroup, inp, tx, cfg, shown, handlers, polls, accepted,
             edges, startq, dismissed, ticks, err, cap>>

cipherVars == <<cin, ckey, cenc, cdec, cpc>>

----------------------------------------------------------------------------
(* Bounds of the model *)

MaxLen == 3      \* cipher check: longest name and longest body
MaxBody == 3     \* characters accepted in one composition
MaxQueue == 3    \* datagrams held in the queue
MaxEdges == 2    \* group adjustments in one Configure activity
MaxTicks == 5    \* run() calls in a session

----------------------------------------------------------------------------
(* Alphabet and strings *)

ALPHABET ==
    << "A", "B", "C", "D", "E", "F", "G", "H", "I", "J", "K", "L", "M",
       "N", "O", "P", "Q", "R", "S", "T", "U", "V", "W", "X", "Y", "Z",
       " " >>

\* the last index of ALPHABET, as written in send()
LastLetter == 26

\* the largest radio group, as written in group_config()
MaxGroup == 255

SEP == << ":", " " >>

InAlphabet(c) == \E k \in 1..Len(ALPHABET) : ALPHABET[k] = c

\* list.index: the 0-based position of the first occurrence of c
Index(c) == (CHOOSE k \in 1..Len(ALPHABET) :
                 ALPHABET[k] = c /\ \A j \in 1..(k - 1) : ALPHABET[j] # c) - 1

\* s[a:b] with 0-based a, b already clipped to 0..len(s)
Slice(s, a, b) == [k \in 1..(IF b > a THEN b - a ELSE 0) |-> s[a + k]]

\* the 0-based position of the first occurrence of sep in s, or -1
Find(s, sep) ==
    LET hits == { p \in 0..(Len(s) - Len(sep)) :
                     \A k \in 1..Len(sep) : s[p + k] = sep[k] }
    IN  IF hits = {} THEN -1
        ELSE CHOOSE p \in hits : \A q \in hits : p <= q

\* str.split(sep): every non-overlapping occurrence, left to right
RECURSIVE Split(_, _)
Split(s, sep) ==
    LET p == Find(s, sep)
    IN  IF p = -1 THEN << s >>
        ELSE << Slice(s, 0, p) >> \o Split(Slice(s, p + Len(sep), Len(s)), sep)

----------------------------------------------------------------------------
(* Cipher *)

Ok(v) == [err |-> "", val |-> v]
Raise(e) == [err |-> e, val |-> << >>]

\* Extend with the cycle started one character late
RECURSIVE ExtendFromSecond(_, _, _, _)
ExtendFromSecond(key, key_base, i, n) ==
    IF i >= n THEN key
    ELSE ExtendFromSecond(Append(key, key_base[((i + 1) % Len(key_base)) + 1]),
                          key_base, i + 1, n)

\* the loop of key_gen: key += key_base[i % len(key_base)] for i in range(n)
RECURSIVE Extend(_, _, _, _)
Extend(key, key_base, i, n) ==
    IF i >= n THEN key
    ELSE Extend(Append(key, key_base[(i % Len(key_base)) + 1]), key_base, i + 1, n)

key_gen(msg) ==
    LET split == Split(msg, SEP)
    IN  IF Len(split) < 2 THEN Raise("IndexError")
        ELSE LET key_base == split[1]
                 text == split[2]
                 n == Len(text) - Len(key_base)
             IN  IF Len(key_base) # Len(text) /\ n > 0 /\ Len(key_base) = 0
                     THEN Raise("ZeroDivisionError")
                 ELSE Ok(<< IF Len(key_base) # Len(text)
                               THEN Extend(key_base, key_base, 0, n)
                               ELSE key_base,
                            text, key_base >>)

\* Shift with the wrap taken modulo 26, the number of letters
ShiftMod26(c, k, sign) ==
    ALPHABET[((Index(c) + sign * Index(k)) % 26) + 1]

\* one character of the shift loops; sign is 1 in encrypt and -1 in decrypt
Shift(c, k, sign) ==
    ALPHABET[((Index(c) + sign * Index(k)) % Len(ALPHABET)) + 1]

Shifted(text, key, sign) ==
    IF \E k \in 1..Len(text) : ~InAlphabet(text[k]) \/ ~InAlphabet(key[k])
        THEN Raise("ValueError")
    ELSE Ok([k \in 1..Len(text) |-> Shift(text[k], key[k], sign)])

encrypt(msg_plain) ==
    LET prepare == key_gen(msg_plain)
    IN  IF prepare.err # "" THEN prepare
        ELSE LET encrypted == Shifted(prepare.val[2], prepare.val[1], 1)
             IN  IF encrypted.err # "" THEN encrypted
                 ELSE Ok(prepare.val[3] \o SEP \o encrypted.val)

decrypt(msg_encrypted) ==
    LET prepare == key_gen(msg_encrypted)
    IN  IF prepare.err # "" THEN prepare
        ELSE LET decrypted == Shifted(prepare.val[2], prepare.val[1], -1)
             IN  IF decrypted.err # "" THEN decrypted
                 ELSE Ok(prepare.val[3] \o SEP \o decrypted.val)

----------------------------------------------------------------------------
(* Inputs *)

\* the sender names the device is constructed with
Names == { << >>, << "M" >> }

\* the radio groups the device is constructed with
InitGroups == { 0, 255 }

\* the characters the user confirms while composing
Typed == { "A", "B", " " }

\* what radio.receive() can return besides None
D1 == << "B", ":", " ", "Z" >>
D2 == << "Z", ":", " ", "B", " " >>
D3 == << " ", ":", " ", "C" >>
NoSeparator == << "B", "Z" >>
BadSymbol == << "B", ":", " ", "#" >>
Datagrams == { D1, D2, D3, NoSeparator, BadSymbol }

None == << "None" >>

\* The sessions explored.  A session is spent composing (any cursor moves,
\* up to MaxBody characters), reading (up to MaxQueue queued datagrams),
\* configuring (up to MaxEdges adjustments per activity), or doing a little
\* of each.
Profiles ==
    { [body |-> MaxBody, cursor |-> TRUE, queue |-> 0, edges |-> 0],
      [body |-> 0, cursor |-> FALSE, queue |-> MaxQueue, edges |-> 0],
      [body |-> 0, cursor |-> FALSE, queue |-> 0, edges |-> MaxEdges],
      [body |-> 2, cursor |-> FALSE, queue |-> 2, edges |-> 1] }

\* was_pressed of A and of B, is_touched of the logo, is_pressed of A and
\* of B, and the value of radio.receive(); FALSE for an input not read
NoInput == [a |-> FALSE, b |-> FALSE, logo |-> FALSE,
            aHeld |-> FALSE, bHeld |-> FALSE, new |-> None]

----------------------------------------------------------------------------
(* Device: helpers *)

\* Dispatch with an unknown mode handled as Send
DispatchDefaultSend(m) ==
    IF m = 1 THEN "get"
    ELSE IF m = 2 THEN "group_config"
    ELSE "send"

\* run(): the handler of a mode value, "none" for the else branch
Dispatch(m) ==
    IF m = 0 THEN "send"
    ELSE IF m = 1 THEN "get"
    ELSE IF m = 2 THEN "group_config"
    ELSE "none"

\* AdvanceMode wrapping from Configure to Send
AdvanceModeCyclic(m) == (m + 1) % 3

\* self.mode += 1
AdvanceMode(m) == m + 1

\* Outgoing without the slice
OutgoingWhole(msg) == msg

\* StartMessage without the reset of a message left by an earlier send()
StartMessageKept(msg, nm) == IF msg = << >> THEN nm \o SEP ELSE msg

\* send(): self.message = "" and self.message += "%s: " % self.name
StartMessage(msg, nm) == << >> \o nm \o SEP

\* NothingComposed comparing with the name alone
NothingComposedNoSep(msg, nm) == msg = nm

\* send(): the test that only the name prefix exists
NothingComposed(msg, nm) == msg = nm \o SEP

\* self.message[0:-1]
Outgoing(msg) == Slice(msg, 0, IF Len(msg) > 0 THEN Len(msg) - 1 ELSE 0)

\* Pop taking the head of the queue whatever the index
PopHead(q, i) == Tail(q)

\* self.incoming.pop(i), i a valid 0-based index
Pop(q, i) == [k \in 1..(Len(q) - 1) |-> IF k <= i THEN q[k] ELSE q[k + 1]]

\* AfterWait with the pop done on every pass of the wait loop
AfterWaitPopAlways(q, i, b) == Pop(q, i)

\* get(): the queue after one pass of the wait loop: the pop is reached by
\* the break on a B press only, the logo branch returns before it
AfterWait(q, i, b) == IF b THEN Pop(q, i) ELSE q

\* Received with the datagram put at the head of the queue
ReceivedAtHead(q, new) == IF new # None THEN << new >> \o q ELSE q

\* run(): self.incoming after the poll returned new
Received(q, new) == IF new # None THEN Append(q, new) ELSE q

\* BothHeld with one held button being enough
EitherHeld(aHeld, bHeld) == aHeld \/ bHeld

\* group_config(): the exit condition of the loop
BothHeld(aHeld, bHeld) == aHeld /\ bHeld

\* Decrement stopping at 0
DecrementClamped(g) == IF g - 1 < 0 THEN 0 ELSE g - 1

\* self.group -= 1 with its wrap
Decrement(g) == IF g - 1 < 0 THEN MaxGroup ELSE g - 1

\* self.group += 1 with its wrap
Increment(g) == IF g + 1 > MaxGroup THEN 0 ELSE g + 1

\* NextLetter wrapping one index early
NextLetterWrapEarly(l, b) ==
    LET l1 == IF b THEN l + 1 ELSE l
    IN  IF l1 >= LastLetter THEN 0 ELSE l1

\* the letter update of one inner-loop pass of send()
NextLetter(l, b) ==
    LET l1 == IF b THEN l + 1 ELSE l
    IN  IF l1 > LastLetter THEN 0 ELSE l1

\* get(): the head of the for loop at index i of range(n) over queue q:
\* decrypt and display self.incoming[i], or leave the loop
ForStep(q, i, n, sh) ==
    IF i >= n THEN [pc |-> "get_end", err |-> "", shown |-> sh]
    ELSE IF i >= Len(q) THEN [pc |-> "crashed", err |-> "IndexError", shown |-> sh]
    ELSE LET d == decrypt(q[i + 1])
         IN  IF d.err # "" THEN [pc |-> "crashed", err |-> d.err, shown |-> sh]
             ELSE [pc |-> "get_wait", err |-> "", shown |-> Append(sh, q[i + 1])]

----------------------------------------------------------------------------
(* Device: actions *)

Init ==
    /\ name \in Names
    /\ group \in InitGroups
    /\ message = << >>
    /\ mode = 0
    /\ letter = 0
    /\ incoming = << >>
    /\ pc = "run"
    /\ idx = 0
    /\ cnt = 0
    /\ radioGroup = group
    /\ inp = NoInput
    /\ tx = << >>
    /\ cfg = << >>
    /\ shown = << >>
    /\ handlers = << >>
    /\ polls = 0
    /\ accepted = << >>
    /\ edges = 0
    /\ startq = << >>
    /\ dismissed = 0
    /\ ticks = 0
    /\ err = ""
    /\ cap \in Profiles
    /\ cin = [name |-> << >>, body |-> << >>]
    /\ ckey = Ok(<< >>)
    /\ cenc = Ok(<< >>)
    /\ cdec = Ok(<< >>)
    /\ cpc = "off"

\* run() up to the first input read of the activity it calls
Run ==
    /\ pc = "run"
    /\ ticks < MaxTicks
    /\ ticks' = ticks + 1
    /\ inp' = NoInput
    /\ tx' = << >>
    /\ cfg' = << >>
    /\ polls' = 0
    /\ accepted' = << >>
    /\ edges' = 0
    /\ dismissed' = 0
    /\ handlers' = IF Dispatch(mode) = "none" THEN << >> ELSE << Dispatch(mode) >>
    /\ UNCHANGED <<name, group, letter, incoming, radioGroup>>
    /\ UNCHANGED <<cap, cin, ckey, cenc, cdec, cpc>>
    /\ CASE Dispatch(mode) = "send" ->
              /\ message' = StartMessage(message, name)
              /\ pc' = "send_outer"
              /\ UNCHANGED <<mode, idx, cnt, err>>
              /\ shown' = << >>
              /\ startq' = << >>
         [] Dispatch(mode) = "get" ->
              LET r == ForStep(incoming, 0, Len(incoming), << >>)
              IN  /\ idx' = 0
                  /\ cnt' = Len(incoming)
                  /\ startq' = incoming
                  /\ pc' = r.pc
                  /\ err' = r.err
                  /\ shown' = r.shown
                  /\ UNCHANGED <<mode, message>>
         [] Dispatch(mode) = "group_config" ->
              /\ pc' = "cfg_loop"
              /\ shown' = << >>
              /\ startq' = << >>
              /\ UNCHANGED <<mode, message, idx, cnt, err>>
         [] OTHER ->
              /\ mode' = 0
              /\ pc' = "poll"
              /\ shown' = << >>
              /\ startq' = << >>
              /\ UNCHANGED <<message, idx, cnt, err>>

\* send(): one evaluation of the outer loop condition and, when it ends the
\* loop, the rest of send()
SendOuter(a, b) ==
    /\ pc = "send_outer"
    /\ inp' = [NoInput EXCEPT !.a = a, !.b = a /\ b]
    /\ UNCHANGED <<name, group, message, mode, letter, incoming, idx, cnt,
                   radioGroup, cfg, shown, handlers, polls, accepted, edges,
                   startq, dismissed, ticks>>
    /\ UNCHANGED <<cap, cin, ckey, cenc, cdec, cpc>>
    /\ IF a /\ b
          THEN IF NothingComposed(message, name)
                  THEN /\ pc' = "poll"
                       /\ UNCHANGED <<tx, err>>
                  ELSE LET send == encrypt(Outgoing(message))
                       IN  IF send.err # ""
                              THEN /\ pc' = "crashed"
                                   /\ err' = send.err
                                   /\ UNCHANGED tx
                              ELSE /\ tx' = Append(tx, send.val)
                                   /\ pc' = "poll"
                                   /\ UNCHANGED err
          ELSE /\ pc' = "send_inner"
               /\ UNCHANGED <<tx, err>>

\* send(): one evaluation of the inner loop condition and, when it holds, one
\* pass of the inner loop; otherwise the accept of the shown character
SendInner(a, b, logo) ==
    /\ pc = "send_inner"
    /\ UNCHANGED <<name, group, incoming, idx, cnt, radioGroup, tx, cfg, shown,
                   handlers, polls, edges, startq, dismissed, ticks>>
    /\ UNCHANGED <<cap, cin, ckey, cenc, cdec, cpc>>
    /\ IF a
          THEN /\ Len(accepted) < cap.body
               /\ ALPHABET[letter + 1] \in Typed
               /\ inp' = [NoInput EXCEPT !.a = TRUE]
               /\ message' = Append(message, ALPHABET[letter + 1])
               /\ accepted' = Append(accepted, ALPHABET[letter + 1])
               /\ letter' = 0
               /\ pc' = "send_outer"
               /\ UNCHANGED <<mode, err>>
          ELSE /\ b => cap.cursor
               /\ inp' = [NoInput EXCEPT !.b = b, !.logo = logo]
               /\ letter' = NextLetter(letter, b)
               /\ UNCHANGED <<message, accepted, err>>
               /\ IF logo
                     THEN /\ mode' = AdvanceMode(mode)
                          /\ pc' = "poll"
                     ELSE /\ pc' = "send_inner"
                          /\ UNCHANGED mode

\* get(): one pass of the wait loop and, on a dismissal, the pop and the head
\* of the next for-loop iteration
GetWait(b, logo) ==
    /\ pc = "get_wait"
    /\ inp' = [NoInput EXCEPT !.b = b, !.logo = (~b) /\ logo]
    /\ UNCHANGED <<name, group, message, letter, cnt, radioGroup, tx, cfg,
                   handlers, polls, accepted, edges, startq, ticks>>
    /\ UNCHANGED <<cap, cin, ckey, cenc, cdec, cpc>>
    /\ incoming' = AfterWait(incoming, idx, b)
    /\ IF b
          THEN LET r == ForStep(incoming', idx + 1, cnt, shown)
               IN  /\ idx' = idx + 1
                   /\ dismissed' = dismissed + 1
                   /\ pc' = r.pc
                   /\ err' = r.err
                   /\ shown' = r.shown
                   /\ UNCHANGED mode
          ELSE /\ UNCHANGED <<idx, dismissed, err, shown>>
               /\ IF logo
                     THEN /\ mode' = AdvanceMode(mode)
                          /\ pc' = "poll"
                     ELSE /\ pc' = "get_wait"
                          /\ UNCHANGED mode

\* get(): the logo check after the for loop
GetEnd(logo) ==
    /\ pc = "get_end"
    /\ inp' = [NoInput EXCEPT !.logo = logo]
    /\ mode' = IF logo THEN AdvanceMode(mode) ELSE mode
    /\ pc' = "poll"
    /\ UNCHANGED <<name, group, message, letter, incoming, idx, cnt, radioGroup,
                   tx, cfg, shown, handlers, polls, accepted, edges, startq,
                   dismissed, ticks, err>>
    /\ UNCHANGED <<cap, cin, ckey, cenc, cdec, cpc>>

\* group_config(): one evaluation of the loop condition and, when it holds,
\* one pass of the loop; otherwise the radio.config call
CfgLoop(aHeld, bHeld, a, b, logo) ==
    /\ pc = "cfg_loop"
    /\ UNCHANGED <<name, message, letter, incoming, idx, cnt, tx, shown,
                   handlers, polls, accepted, startq, dismissed, ticks, err>>
    /\ UNCHANGED <<cap, cin, ckey, cenc, cdec, cpc>>
    /\ IF BothHeld(aHeld, bHeld)
          THEN /\ inp' = [NoInput EXCEPT !.aHeld = aHeld, !.bHeld = aHeld /\ bHeld]
               /\ radioGroup' = group
               /\ cfg' = Append(cfg, group)
               /\ pc' = "poll"
               /\ UNCHANGED <<group, mode, edges>>
          ELSE /\ inp' = [NoInput EXCEPT !.a = a, !.b = (~a) /\ b, !.logo = logo,
                                         !.aHeld = aHeld, !.bHeld = aHeld /\ bHeld]
               /\ (a \/ b) => edges < cap.edges
               /\ edges' = IF a \/ b THEN edges + 1 ELSE edges
               /\ group' = IF a THEN Decrement(group)
                           ELSE IF b THEN Increment(group)
                           ELSE group
               /\ UNCHANGED <<radioGroup, cfg>>
               /\ IF logo
                     THEN /\ mode' = AdvanceMode(mode)
                          /\ pc' = "poll"
                     ELSE /\ pc' = "cfg_loop"
                          /\ UNCHANGED mode

\* run(): the radio poll that ends the tick
Poll(new) ==
    /\ pc = "poll"
    /\ (new # None) => Len(incoming) < cap.queue
    /\ polls' = polls + 1
    /\ incoming' = Received(incoming, new)
    /\ inp' = [NoInput EXCEPT !.new = new]
    /\ pc' = "run"
    /\ UNCHANGED <<name, group, message, mode, letter, idx, cnt, radioGroup,
                   tx, cfg, shown, handlers, accepted, edges, startq,
                   dismissed, ticks, err>>
    /\ UNCHANGED <<cap, cin, ckey, cenc, cdec, cpc>>

SendOuterStep == \E a, b \in BOOLEAN : SendOuter(a, b)
SendInnerStep == \E a, b, logo \in BOOLEAN : SendInner(a, b, logo)
GetWaitStep == \E b, logo \in BOOLEAN : GetWait(b, logo)
GetEndStep == \E logo \in BOOLEAN : GetEnd(logo)
CfgLoopStep == \E aHeld, bHeld, a, b, logo \in BOOLEAN : CfgLoop(aHeld, bHeld, a, b, logo)
PollStep == \E new \in Datagrams \cup {None} : Poll(new)

Next ==
    \/ Run
    \/ SendOuterStep
    \/ SendInnerStep
    \/ GetWaitStep
    \/ GetEndStep
    \/ CfgLoopStep
    \/ PollStep

Spec == Init /\ [][Next]_vars

----------------------------------------------------------------------------
(* Cipher check: encrypt and decrypt applied to bounded inputs *)

\* the symbols of the names and bodies tried
CipherSyms == { "B", "Z", " " }

Strings(n) == UNION { [1..k -> CipherSyms] : k \in 0..n }

Plain(m) == m.name \o SEP \o m.body

\* the example of key_gen's docstring, with a body longer than the name
Mats == [name |-> << "M", "A", "T", "S" >>,
         body |-> << "H", "E", "L", "L", "O", "X" >>]

\* bodies that hold the separator themselves
SepBodies == { b1 \o SEP \o b2 : b1 \in Strings(1), b2 \in Strings(1) }

\* the messages tried: every name and body of up to MaxLen symbols (empty
\* ones included), the docstring example, and bodies with a separator
CipherInputs ==
    [name : Strings(MaxLen), body : Strings(MaxLen)]
        \cup { Mats }
        \cup [name : Strings(1), body : SepBodies]

CInit ==
    /\ name = << >>
    /\ group = 0
    /\ message = << >>
    /\ mode = 0
    /\ letter = 0
    /\ incoming = << >>
    /\ pc = "off"
    /\ idx = 0
    /\ cnt = 0
    /\ radioGroup = 0
    /\ inp = NoInput
    /\ tx = << >>
    /\ cfg = << >>
    /\ shown = << >>
    /\ handlers = << >>
    /\ polls = 0
    /\ accepted = << >>
    /\ edges = 0
    /\ startq = << >>
    /\ dismissed = 0
    /\ ticks = 0
    /\ err = ""
    /\ cap = [body |-> 0, cursor |-> FALSE, queue |-> 0, edges |-> 0]
    /\ cin \in CipherInputs
    /\ ckey = Ok(<< >>)
    /\ cenc = Ok(<< >>)
    /\ cdec = Ok(<< >>)
    /\ cpc = "plain"

CEncrypt ==
    /\ cpc = "plain"
    /\ ckey' = key_gen(Plain(cin))
    /\ cenc' = encrypt(Plain(cin))
    /\ cpc' = "encrypted"
    /\ UNCHANGED <<cin, cdec>>
    /\ UNCHANGED devVars

CDecrypt ==
    /\ cpc = "encrypted"
    /\ cenc.err = ""
    /\ cdec' = decrypt(cenc.val)
    /\ cpc' = "decrypted"
    /\ UNCHANGED <<cin, ckey, cenc>>
    /\ UNCHANGED devVars

CNext == CEncrypt \/ CDecrypt

SpecCipher == CInit /\ [][CNext]_vars

----------------------------------------------------------------------------
(* Claims *)

OverAlphabet(str) == \A k \in 1..Len(str) : InAlphabet(str[k])

\* C1: for every non-empty name and non-empty body over Alphabet symbols,
\* whatever their relative lengths, encrypt returns and
\* decrypt(encrypt(name + ": " + body)) = name + ": " + body.
C1_RoundTrip ==
    (Len(cin.name) > 0 /\ Len(cin.body) > 0
        /\ OverAlphabet(cin.name) /\ OverAlphabet(cin.body)) =>
        /\ cpc \in {"encrypted", "decrypted"} => cenc.err = ""
        /\ cpc = "decrypted" => cdec = Ok(Plain(cin))

\* C1 witness: a name shorter than the body (the key cycles), a ciphertext
\* that differs from the plain text, decrypted back to the plain text.
C1_Witness ==
    /\ cpc = "decrypted"
    /\ Len(cin.name) > 0
    /\ Len(cin.name) < Len(cin.body)
    /\ cenc.val # Plain(cin)
    /\ cdec = Ok(Plain(cin))

----------------------------------------------------------------------------
(* Send *)

\* send() has just left its outer loop by the finish signal
Finished == pc \in {"poll", "crashed"} /\ handlers = << "send" >> /\ inp.a /\ inp.b

AllButLast(s) == SubSeq(s, 1, Len(s) - 1)

\* C2 as stated: after a composition ended by the finish signal with at least
\* one accepted character, the radio transport was handed exactly
\* encrypt(NAME + ": " + BODY), BODY being all accepted characters in order
\* (stated for a non-empty NAME).
C2_SendsWholeBody ==
    (Finished /\ Len(accepted) >= 1 /\ Len(name) > 0) =>
        /\ encrypt(name \o SEP \o accepted).err = ""
        /\ tx = << encrypt(name \o SEP \o accepted).val >>

\* C2 amended: after a composition ended by the finish signal with at least
\* one accepted character, send() has passed NAME + ": " + BODY', BODY' being
\* the accepted characters in order without the last one, to encrypt, and has
\* handed the result to the radio transport as the only transmission; when
\* encrypt raises (empty NAME, non-empty BODY') nothing is transmitted.
C2_SendsAllButLast ==
    (Finished /\ Len(accepted) >= 1) =>
        LET send == encrypt(name \o SEP \o AllButLast(accepted))
        IN  IF send.err = ""
               THEN pc = "poll" /\ tx = << send.val >>
               ELSE pc = "crashed" /\ tx = << >> /\ err = send.err

\* C2 witness: three characters accepted, finish, and the ciphertext of the
\* first two transmitted under a non-empty name.
C2_Witness ==
    /\ Finished
    /\ pc = "poll"
    /\ Len(name) > 0
    /\ Len(accepted) = 3
    /\ accepted[1] # accepted[2]
    /\ tx = << encrypt(name \o SEP \o AllButLast(accepted)).val >>
    /\ tx[1] # name \o SEP \o AllButLast(accepted)

----------------------------------------------------------------------------
(* Receive *)

WellFormed(d) == decrypt(d).err = ""

AllWellFormed(q) == \A k \in 1..Len(q) : WellFormed(q[k])

\* get() is running (or has raised) and has not been aborted
Viewing == handlers = << "get" >> /\ pc \in {"get_wait", "get_end", "crashed"}

\* C3 as stated: in a Receive activity on well-formed entries [D1..Dn], not
\* aborted, after k dismissals the queue is exactly [D(k+1)..Dn].
C3_DismissalsTakeTheHead ==
    (Viewing /\ AllWellFormed(startq)) =>
        incoming = SubSeq(startq, dismissed + 1, Len(startq))

\* C4 as stated: a Receive activity on n well-formed entries that is not
\* aborted does not fail, and when its loop is over it has displayed every
\* entry once, oldest first, and the queue is empty.
C4_ShowsAllThenEmpty ==
    (Viewing /\ AllWellFormed(startq)) =>
        /\ pc # "crashed"
        /\ pc = "get_end" => (shown = startq /\ incoming = << >>)

\* C5 as stated: an entry that cannot be decoded is not fatal: get() never
\* ends the program at an undecodable entry that a well-formed entry follows.
C5_UndecodableIsSkipped ==
    ~ ( /\ handlers = << "get" >>
        /\ pc = "crashed"
        /\ idx + 1 < Len(incoming)
        /\ ~WellFormed(incoming[idx + 1])
        /\ WellFormed(incoming[idx + 2]) )

\* C6: the abort of get() by the logo while an entry is displayed leaves the
\* queue as it was, with the displayed entry still in it at its position.
C6_AbortKeepsQueue ==
    [][(pc = "get_wait" /\ pc' = "poll") =>
          /\ inp'.logo
          /\ incoming' = incoming
          /\ idx < Len(incoming')
          /\ incoming'[idx + 1] = shown[Len(shown)]]_vars

\* C6 witness: get() aborted at the second entry it displayed, after one
\* dismissal, with the displayed entry still queued.
C6_Witness ==
    /\ pc = "poll"
    /\ handlers = << "get" >>
    /\ inp.logo
    /\ dismissed = 1
    /\ Len(shown) = 2
    /\ Len(incoming) = Len(startq) - 1
    /\ \E k \in 1..Len(incoming) : incoming[k] = shown[2]

----------------------------------------------------------------------------
(* Ticks and modes *)

\* C7: a tick that starts in mode 0, 1 or 2 invokes the handler of that mode
\* and no other; no radio poll is made before the activity has returned; the
\* poll step makes exactly one poll, puts the datagram it got at the tail of
\* the queue and ends the tick, so every finished tick made exactly one poll.
C7_OneHandlerOnePoll ==
    /\ [](pc \in {"send_outer", "send_inner", "get_wait", "get_end",
                  "cfg_loop", "poll", "crashed"} => polls = 0)
    /\ []((pc = "run" /\ ticks > 0) => polls = 1)
    /\ [][pc = "run" =>
             handlers' = IF mode = 0 THEN << "send" >>
                         ELSE IF mode = 1 THEN << "get" >>
                         ELSE IF mode = 2 THEN << "group_config" >>
                         ELSE << >>]_vars
    /\ [][pc # "run" => handlers' = handlers]_vars
    /\ [][pc = "poll" =>
             /\ pc' = "run"
             /\ polls' = 1
             /\ incoming' = IF inp'.new = None THEN incoming
                            ELSE Append(incoming, inp'.new)]_vars

\* C7 witness: a tick that ran get(), was aborted, and whose poll put a
\* datagram behind two queued ones.
C7_Witness ==
    /\ pc = "run"
    /\ ticks > 0
    /\ handlers = << "get" >>
    /\ mode = 2
    /\ polls = 1
    /\ inp.new # None
    /\ Len(incoming) = 3
    /\ incoming[3] = inp.new
    /\ incoming[1] # inp.new

\* C8 as stated: every advance-mode signal moves the mode to the next value
\* of the cycle Send (0), Receive (1), Configure (2), Send (0).
C8_AdvanceIsCyclic ==
    [][(pc # "run" /\ inp'.logo) => mode' = (mode + 1) % 3]_vars

\* C8 amended: every advance-mode signal adds exactly one to the mode, which
\* only such a signal changes inside an activity: from Send the mode passes
\* Receive (1) and Configure (2) and the third signal leaves it at 3; the
\* tick that starts with mode 3 sets it to Send (0) and runs no activity.
C8_AdvanceAddsOne ==
    /\ [](mode \in 0..3)
    /\ [][(pc # "run" /\ inp'.logo) => (mode \in 0..2 /\ mode' = mode + 1)]_vars
    /\ [][(pc # "run" /\ mode' # mode) => inp'.logo]_vars
    /\ [][(pc = "run" /\ mode = 3) => (mode' = 0 /\ handlers' = << >>)]_vars
    /\ [][(pc = "run" /\ mode # 3) => mode' = mode]_vars

\* C8 witness: three ticks each ended by an advance-mode signal, then the
\* fourth tick has put the mode back to Send.
C8_Witness ==
    /\ ticks = 4
    /\ pc = "poll"
    /\ handlers = << >>
    /\ mode = 0

\* C9: a tick that starts with a mode other than 0, 1, 2 invokes no handler,
\* sets the mode to Send and goes on to the radio poll without failing.
C9_UnknownModeResets ==
    [][(pc = "run" /\ mode \notin {0, 1, 2}) =>
          /\ handlers' = << >>
          /\ mode' = 0
          /\ pc' = "poll"
          /\ err' = ""]_vars

\* C9 witness: the tick that started with mode 3 is at its radio poll, no
\* handler invoked, mode Send.
C9_Witness ==
    /\ pc = "poll"
    /\ ticks > 0
    /\ handlers = << >>
    /\ mode = 0
    /\ err = ""

----------------------------------------------------------------------------
(* Configure *)

\* C10: group_config() calls radio.config only in the step that finds both
\* buttons held, with the current group, which it leaves as it is; a step
\* that does not find both held (edges, the abort by the logo) calls nothing
\* and leaves the transport's group alone; no other activity calls it.
C10_CommitOnlyBothHeld ==
    /\ [][(pc = "cfg_loop" /\ inp'.aHeld /\ inp'.bHeld) =>
             /\ cfg' = Append(cfg, group)
             /\ radioGroup' = group
             /\ group' = group
             /\ mode' = mode
             /\ pc' = "poll"]_vars
    /\ [][(pc = "cfg_loop" /\ ~(inp'.aHeld /\ inp'.bHeld)) =>
             (cfg' = cfg /\ radioGroup' = radioGroup)]_vars
    /\ [][pc \notin {"cfg_loop", "run"} =>
             (cfg' = cfg /\ radioGroup' = radioGroup)]_vars
    /\ [][pc = "run" => (cfg' = << >> /\ radioGroup' = radioGroup)]_vars

\* C10 witness: after two adjustments both buttons were found held and the
\* adjusted group was committed.
C10_Witness ==
    /\ pc = "poll"
    /\ handlers = << "group_config" >>
    /\ inp.aHeld /\ inp.bHeld
    /\ edges = 2
    /\ cfg = << group >>
    /\ radioGroup = group
    /\ group \notin InitGroups

\* C11: the group stays in 0..255; a pass of the Configure loop that sees an
\* A edge takes 1 from it, 0 becoming 255; one that sees a B edge (and no A
\* edge) adds 1, 255 becoming 0; nothing else changes it.
C11_GroupWraps ==
    /\ [](group \in 0..255)
    /\ [][(pc = "cfg_loop" /\ inp'.a) =>
             group' = IF group = 0 THEN 255 ELSE group - 1]_vars
    /\ [][(pc = "cfg_loop" /\ inp'.b) =>
             group' = IF group = 255 THEN 0 ELSE group + 1]_vars
    /\ [][~(pc = "cfg_loop" /\ (inp'.a \/ inp'.b)) => group' = group]_vars

\* C11 witness: the device constructed with group 0 (still the transport's
\* group) has made one adjustment, an A edge, and is at group 255.
C11_Witness ==
    /\ pc = "cfg_loop"
    /\ inp.a
    /\ edges = 1
    /\ radioGroup = 0
    /\ group = 255

\* C11 second case: from 255 a B edge gave 0.
C11_WitnessUp ==
    /\ pc = "cfg_loop"
    /\ inp.b
    /\ edges = 1
    /\ radioGroup = 255
    /\ group = 0

\* C12: a Send activity in which no character was accepted has called
\* radio.send at no point, and when it was ended by the finish signal it has
\* returned to run() without an exception.
C12_EmptyNeverSends ==
    (handlers = << "send" >> /\ Len(accepted) = 0) =>
        /\ tx = << >>
        /\ pc # "crashed"

\* C12 witness: the finish signal at the first test of the outer loop, no
\* character accepted, nothing transmitted.
C12_Witness ==
    /\ Finished
    /\ pc = "poll"
    /\ accepted = << >>
    /\ message = name \o SEP
    /\ tx = << >>

----------------------------------------------------------------------------
(* Key derivation and decomposition *)

\* key_gen has been applied to the message of cin
Keyed == cpc \in {"encrypted", "decrypted"}

\* the shifts of the docstring example: M, A, T, S, M, A
MatsShifts == << 12, 0, 19, 18, 12, 0 >>

\* C13: for a non-empty name and a body, both over Alphabet symbols, key_gen
\* returns a key whose character i is NAME[i mod len(NAME)] for every
\* 0 <= i < len(BODY); for MATS and HELLOX the key is MATSMA and encrypt
\* shifts the body by 12, 0, 19, 18, 12, 0 modulo 27.
C13_KeyCycles ==
    (Keyed /\ Len(cin.name) > 0
        /\ OverAlphabet(cin.name) /\ OverAlphabet(cin.body)) =>
        /\ ckey.err = ""
        /\ \A i \in 0..(Len(cin.body) - 1) :
              ckey.val[1][i + 1] = cin.name[(i % Len(cin.name)) + 1]
        /\ cin = Mats =>
              /\ ckey.val[1] = << "M", "A", "T", "S", "M", "A" >>
              /\ cenc.err = ""
              /\ \A i \in 1..6 :
                    cenc.val[6 + i] =
                        ALPHABET[((Index(cin.body[i]) + MatsShifts[i]) % 27) + 1]

\* C13 witness: MATS: HELLOX has been encrypted to MATS: TEDC X.
C13_Witness ==
    /\ cpc = "encrypted"
    /\ cin = Mats
    /\ cenc = Ok(<< "M", "A", "T", "S", ":", " ", "T", "E", "D", "C", " ", "X" >>)

\* C14 as stated: for every message with a separator-free name and body of
\* any lengths, 0 included, key_gen returns, with a key of at least
\* len(body) characters.
C14_KeyCoversBody ==
    (Keyed /\ OverAlphabet(cin.name) /\ OverAlphabet(cin.body)) =>
        /\ ckey.err = ""
        /\ Len(ckey.val[1]) >= Len(cin.body)

\* the text of msg before (part 1) and after (part 2) its first separator
AtFirstSeparator(msg) ==
    LET p == Find(msg, SEP)
    IN  << SubSeq(msg, 1, p), SubSeq(msg, p + Len(SEP) + 1, Len(msg)) >>

\* C17 as stated: key_gen splits the message at the first separator only:
\* its name is the text before it and its body the whole text after it.
C17_SplitsAtFirstOnly ==
    (Keyed /\ ckey.err = "") =>
        /\ ckey.val[3] = AtFirstSeparator(Plain(cin))[1]
        /\ ckey.val[2] = AtFirstSeparator(Plain(cin))[2]

----------------------------------------------------------------------------
(* Queue, composition and cursor across activities *)

\* q without its entry at 0-based index i
Without(q, i) == SubSeq(q, 1, i) \o SubSeq(q, i + 2, Len(q))

\* C15: the queue is empty when the session starts; the poll step leaves it
\* alone or puts one datagram behind the entries it holds; send(),
\* group_config(), the dispatch and the end of get() leave it alone; and in
\* get() it changes only by a dismissal, which takes out exactly the one
\* entry on display.
C15_QueueFrame ==
    /\ [](ticks = 0 => incoming = << >>)
    /\ [][pc = "poll" =>
             (incoming' = incoming
              \/ (Len(incoming') = Len(incoming) + 1
                  /\ SubSeq(incoming', 1, Len(incoming)) = incoming))]_vars
    /\ [][(pc = "run" \/ pc = "send_outer" \/ pc = "send_inner"
             \/ pc = "cfg_loop" \/ pc = "get_end") =>
             incoming' = incoming]_vars
    /\ [][(pc = "get_wait" /\ incoming' # incoming) =>
             /\ inp'.b
             /\ idx < Len(incoming)
             /\ incoming[idx + 1] = shown[Len(shown)]
             /\ incoming' = Without(incoming, idx)]_vars

\* C15 witness: get() displayed an entry that was not at the head of the
\* queue, and its dismissal has taken that entry out.
C15_Witness ==
    /\ handlers = << "get" >>
    /\ inp.b
    /\ dismissed = 2
    /\ Len(startq) = 3
    /\ Len(incoming) = 1
    /\ incoming[1] # shown[2]

\* C16: the abort of a composition by the logo transmits nothing and adds
\* exactly one to the mode; every send() starts its message from the name
\* prefix alone, and during send() the message is the prefix followed by
\* the characters accepted in that activity only.
C16_AbortDiscardsBody ==
    /\ [][(pc = "send_inner" /\ inp'.logo) =>
             /\ tx' = << >>
             /\ mode' = mode + 1
             /\ pc' = "poll"]_vars
    /\ [][(pc = "run" /\ mode = 0) => message' = name \o SEP]_vars
    /\ []((handlers = << "send" >> /\ pc \in {"send_outer", "send_inner", "poll"})
             => message = name \o SEP \o accepted)

\* C16 witness: a composition with two accepted characters aborted by the
\* logo: nothing transmitted, mode Receive.
C16_Witness ==
    /\ pc = "poll"
    /\ handlers = << "send" >>
    /\ inp.logo
    /\ Len(accepted) = 2
    /\ tx = << >>
    /\ mode = 1

\* C18: the cursor is always in 0..26; a pass of the inner loop that sees a
\* B press moves it to the next index, 26 going to 0, and one that sees none
\* leaves it; the accept of a character puts it at 0.
C18_CursorInRange ==
    /\ [](letter \in 0..26)
    /\ [][(pc = "send_inner" /\ inp'.b) =>
             letter' = IF letter = 26 THEN 0 ELSE letter + 1]_vars
    /\ [][(pc = "send_inner" /\ ~inp'.b /\ ~inp'.a) => letter' = letter]_vars
    /\ [][(pc = "send_inner" /\ inp'.a) =>
             (letter \in 0..26 /\ letter' = 0
              /\ accepted' = Append(accepted, ALPHABET[letter + 1]))]_vars

\* C18 witness: the space, at index 26, was accepted and the cursor is 0.
C18_Witness ==
    /\ pc = "send_outer"
    /\ inp.a
    /\ Len(accepted) >= 1
    /\ accepted[Len(accepted)] = " "
    /\ letter = 0

\* C18 second case: a B press at index 26 has put the cursor at 0.
C18_WitnessWrap ==
    /\ pc = "send_inner"
    /\ inp.b
    /\ letter = 0

\* C19 as stated: every send() starts with the cursor at 0.
C19_SendStartsAtZero ==
    (handlers = << "send" >> /\ pc = "send_outer" /\ accepted = << >>)
        => letter = 0

\* C20 as stated: outside group_config() the transport's group is the
\* device's group.
C20_GroupCommitted ==
    (pc \in {"run", "poll", "send_outer", "send_inner", "get_wait", "get_end"})
        => radioGroup = group

====
